---- MODULE Spec2Model ----
(***************************************************************************)
(* A model of get_git_diff.py: the command-line entry point, the two       *)
(* top-level operations get_git_diff and get_branch_diff, and the output   *)
(* writer write_to_file.  The version-control library (git.Repo and its    *)
(* heads / refs / active_branch / git.diff) and the file system are the    *)
(* environment: the repository on disk is drawn in Init, every diff call   *)
(* and every file write draws its outcome when it is made.                 *)
(*                                                                         *)
(* Text is TLA+ strings, built with \o exactly as the f-strings build it.  *)
(* Optional values (Python's None) are sequences of length 0 or 1.         *)
(***************************************************************************)
EXTENDS Integers, Sequences, FiniteSets, TLC

VARIABLES
  pc,               \* position of the running program
  op,               \* the top-level operation entered ("" before any)
  args,             \* the parsed command line (None for a direct call)
  repo_path,        \* parameters / locals of the running operation
  feature_branch,
  target_branch,
  output_file,
  exclude_patterns,
  given_feature,    \* the feature_branch argument as passed by the caller
  given_target,     \* the target_branch argument as passed by the caller
  unstaged_diff,    \* results of the diff invocations (None until returned)
  staged_diff,
  diff,
  content,          \* the text handed to write_to_file (None until then)
  raised,           \* the exception raised inside the try block (None: none)
  calls,            \* calls made to the library and to write_to_file, in order
  stdout,           \* printed messages, in order
  written,          \* outcome of every write_to_file call, in order
  files,            \* the file system: path -> None or <<bytes>>
  disk              \* the repository found at the path

vars == <<pc, op, args, repo_path, feature_branch, target_branch, output_file,
          exclude_patterns, given_feature, given_target, unstaged_diff, staged_diff,
          diff, content, raised, calls, stdout, written, files, disk>>

-----------------------------------------------------------------------------
(* Bounds of the model *)

\* longest exclusion list passed to an operation directly
MaxPatterns == 2
\* most -e options on a command line
MaxUserExcludes == 1
\* most bytes a failing write leaves behind
MaxPartial == 0
\* most direct write_to_file calls in a row (specification SpecW)
MaxWrites == 3

-----------------------------------------------------------------------------
(* Python values *)

None == << >>
Some(x) == <<x>>
Val(o) == o[1]

\* Python truthiness of an optional string: None and "" are falsy
Truthy(o) == o # None /\ Val(o) # ""

Last(s) == s[Len(s)]

RECURSIVE Concat(_)
Concat(ss) == IF ss = << >> THEN "" ELSE Head(ss) \o Concat(Tail(ss))

\* s contains sub as a substring (Python's `sub in s`)
Contains(s, sub) ==
  \E i \in 1..(Len(s) - Len(sub) + 1) : SubSeq(s, i, i + Len(sub) - 1) = sub

StartsWith(s, pre) == Len(s) >= Len(pre) /\ SubSeq(s, 1, Len(pre)) = pre

SeqsUpTo(S, n) == UNION {[1..k -> S] : k \in 0..n}

-----------------------------------------------------------------------------
(* Text encoding of written files: UTF-8 over the characters the model uses *)

\* the characters of the model, in runs of consecutive code points:
\* <<code point of the first character, the characters>>
Runs ==
  << <<10, "\n">>,
     <<32, " !">>,
     <<35, "#$%&'()*+,-./0123456789:;<=>?@ABCDEFGHIJKLMNOPQRSTUVWXYZ[\\]^_">>,
     <<97, "abcdefghijklmnopqrstuvwxyz{|}~">> >>

Chars == UNION {{SubSeq(Runs[r][2], i, i) : i \in 1..Len(Runs[r][2])} : r \in 1..Len(Runs)}

\* code point of a character; every character of the model is below 128,
\* which UTF-8 encodes as the one byte of that value
Ord == [c \in Chars |->
          LET r == CHOOSE r \in 1..Len(Runs) :
                     \E i \in 1..Len(Runs[r][2]) : SubSeq(Runs[r][2], i, i) = c
              i == CHOOSE i \in 1..Len(Runs[r][2]) : SubSeq(Runs[r][2], i, i) = c
          IN  Runs[r][1] + i - 1]

Chr == [b \in {Ord[c] : c \in Chars} |-> CHOOSE c \in Chars : Ord[c] = b]

utf8_encode(s) == [i \in 1..Len(s) |-> Ord[SubSeq(s, i, i)]]

utf8_decode(bs) == Concat([i \in 1..Len(bs) |-> Chr[bs[i]]])

\* what reading the file at path f back as UTF-8 text yields (None: no file)
read_back(fs, f) == IF fs[f] = None THEN None ELSE Some(utf8_decode(Val(fs[f])))

-----------------------------------------------------------------------------
(* Inputs and environment *)

RepoPaths == {".", "/r"}
BranchNames == {"main", "dev"}
FeatureArgs == {None, Some(""), Some("dev")}
TargetArgs == {None, Some(""), Some("main")}
OutputArgs == {None, Some("out.diff")}
Patterns == {"a/", "b/*.log"}
DiffTexts == {"", "+a"}

\* argparse default of -e/--exclude
DefaultExclude == <<"src/Migration/Infrastructure/Persistence/Migrations/">>

\* os.path.join of a directory and a relative file name
path_join(a, b) ==
  IF a = "" THEN b
  ELSE IF SubSeq(a, Len(a), Len(a)) = "/" THEN a \o b
  ELSE a \o "/" \o b

\* args.output if args.output else os.path.join(args.repo_path, "gitbranch.diff")
default_output(a) ==
  IF Truthy(a.output) THEN Val(a.output) ELSE path_join(a.repo_path, "gitbranch.diff")

OutPaths == {"out.diff"} \cup {path_join(rp, "gitbranch.diff") : rp \in RepoPaths}

\* the name of the remote-tracking ref tried for a branch
remote_name(b) == "origin/" \o b

\* The repository at the path: what git.Repo(path) finds, and what the handle's
\* bare / active_branch / heads / refs report.  active = None is a detached HEAD.
Disks ==
  {[status |-> st, bare |-> FALSE, active |-> None, heads |-> {}, remotes |-> {}]
     : st \in {"invalid", "nopath"}}
  \cup {[status |-> "ok", bare |-> TRUE, active |-> None, heads |-> {}, remotes |-> {}]}
  \cup [status : {"ok"}, bare : {FALSE}, active : {None, Some("dev")},
        heads : SUBSET BranchNames,
        remotes : SUBSET {remote_name(b) : b \in BranchNames}]

\* repo.heads: the local branch names
heads(d) == d.heads
\* repo.refs: every reference, local branches and remote-tracking refs
refs(d) == d.heads \cup d.remotes

\* Exceptions of the library; all derive from Exception
ExceptionClasses ==
  {"InvalidGitRepositoryError", "NoSuchPathError", "TypeError", "GitCommandError"}

Exc(type, text) == [type |-> type, text |-> text]

\* what git.Repo(path) raises (None: it returns a handle)
repo_open_error(d, rp) ==
  CASE d.status = "invalid" -> Some(Exc("InvalidGitRepositoryError", rp))
    [] d.status = "nopath"  -> Some(Exc("NoSuchPathError", rp))
    [] OTHER                -> None

DetachedHead == Exc("TypeError", "HEAD is a detached symbolic reference")
DiffFailed == Exc("GitCommandError", "Cmd('git') failed due to: exit code(128)")

\* a diff invocation returns text or raises
DiffOutcomes == {[raised |-> None, text |-> t] : t \in DiffTexts}
                \cup {[raised |-> Some(DiffFailed), text |-> ""]}

\* a file write succeeds, fails opening the file, or fails while writing
IoOutcomes == {"ok", "open_fails", "write_fails"}

-----------------------------------------------------------------------------
(* Pure parts of the code *)

\* argparse: action="append" appends each -e to the default list
parse_exclude(user) == DefaultExclude \o user

ArgSpace ==
  LET all == [repo_path : RepoPaths, compare : BOOLEAN, feature_branch : FeatureArgs,
              target_branch : TargetArgs, output : OutputArgs,
              exclude : {parse_exclude(u) : u \in SeqsUpTo(Patterns, MaxUserExcludes)}]
  IN  \* without --compare: no branch options, or both of them
      {a \in all : \/ a.compare
                   \/ a.feature_branch = None /\ a.target_branch = None
                   \/ a.feature_branch = Some("dev") /\ a.target_branch = Some("main")}

\* mutant: the mode is chosen by the presence of a target branch
Dispatch_on_target(a) ==
  IF Truthy(a.target_branch) THEN "get_branch_diff"
  ELSE IF a.compare THEN "missing_target"
  ELSE "get_git_diff"

\* __main__: which operation the parsed arguments select
Dispatch(a) ==
  IF a.compare
    THEN IF ~Truthy(a.target_branch) THEN "missing_target" ELSE "get_branch_diff"
    ELSE "get_git_diff"

MissingTargetMsg ==
  "For branch comparison, please provide a target branch using -t or --target_branch"

\* mutant: the filters are built in reverse order
exclude_args_reversed(P) == [i \in 1..Len(P) |-> ":(exclude)" \o P[Len(P) + 1 - i]]

\* [f":(exclude){pattern}" for pattern in exclude_patterns]
exclude_args(P) == [i \in 1..Len(P) |-> ":(exclude)" \o P[i]]

\* the same, guarded by `if exclude_patterns else []`
exclude_args_branch(P) == IF P # << >> THEN exclude_args(P) ELSE << >>

\* argument lists of the three diff invocations
unstaged_diff_args(P) == <<"--">> \o exclude_args(P)
staged_diff_args(P) == <<"--cached">> \o exclude_args(P)
branch_diff_args(t, f, P) == <<t, f, "--">> \o exclude_args_branch(P)

\* mutant: the staged placeholder is chosen by the unstaged text
format_git_diff_tied(rp, u, s) ==
  "Repository: " \o rp \o "\n\n==== Unstaged Changes ====\n"
    \o (IF u # "" THEN u ELSE "No unstaged changes.")
    \o "\n\n==== Staged Changes ====\n"
    \o (IF u # "" THEN s ELSE "No staged changes.")

\* the document of get_git_diff
format_git_diff(rp, u, s) ==
  "Repository: " \o rp \o "\n\n==== Unstaged Changes ====\n"
    \o (IF u # "" THEN u ELSE "No unstaged changes.")
    \o "\n\n==== Staged Changes ====\n"
    \o (IF s # "" THEN s ELSE "No staged changes.")

\* the document of get_branch_diff
format_branch_diff(t, f, d) ==
  "Diff between target branch '" \o t \o "' and feature branch '" \o f \o "':\n"
    \o (IF d # "" THEN d ELSE "No differences found between the branches.")

target_not_found(t) ==
  "Error: Target branch '" \o t \o "' does not exist locally or remotely."
feature_not_found(f) ==
  "Error: Feature branch '" \o f \o "' does not exist locally or remotely."

\* mutant: `if not feature_branch` (an empty name counts as omitted)
needs_active_branch_falsy(fb) == ~Truthy(fb)

\* `if feature_branch is None`: the active branch is looked up
needs_active_branch(fb) == fb = None

\* mutant: the remote-tracking ref is used without checking it exists
resolve_unchecked_remote(d, b) ==
  IF b \in d.heads THEN Some(b) ELSE Some(remote_name(b))

\* mutant: the remote-tracking ref is preferred over the local branch
resolve_prefers_remote(d, b) ==
  IF remote_name(b) \in d.heads \cup d.remotes THEN Some(remote_name(b))
  ELSE IF b \in d.heads THEN Some(b)
  ELSE None

\* resolution of a branch name b: itself when local, else origin/b when that
\* ref exists, else None
resolve(d, b) ==
  IF b \in heads(d) THEN Some(b)
  ELSE IF remote_name(b) \in refs(d) THEN Some(remote_name(b))
  ELSE None

\* mutant: the feature branch is resolved before the target branch
next_step_feature_first(o, p) ==
  CASE p = "open"            -> IF o = "get_git_diff" THEN "unstaged"
                                ELSE "default_feature"
    [] p = "default_feature" -> "resolve_feature"
    [] p = "resolve_feature" -> "resolve_target"
    [] p = "resolve_target"  -> "branch_diff"
    [] p = "unstaged"        -> "staged"
    [] OTHER                 -> "write"

\* statement order inside the try blocks: the step that follows step p of
\* operation o when p neither returns nor raises
next_step(o, p) ==
  CASE p = "open"            -> IF o = "get_git_diff" THEN "unstaged"
                                ELSE "default_feature"
    [] p = "default_feature" -> "resolve_target"
    [] p = "resolve_target"  -> "resolve_feature"
    [] p = "resolve_feature" -> "branch_diff"
    [] p = "unstaged"        -> "staged"
    [] OTHER                 -> "write"

\* mutant: no return after the target's not-found message is written
after_write_no_return(o, c) ==
  IF Contains(c, "Error: Target branch") THEN "resolve_feature" ELSE "done"

\* what follows a write_to_file call: every call site is followed by a return
\* or by the end of the try block
after_write(o, c) == "done"

\* mutant: only the invalid-repository clause is there
except_clauses_only_invalid(o, rp, e) ==
  IF e.type = "InvalidGitRepositoryError"
    THEN Some(IF o = "get_git_diff" THEN "Error: Not a valid git repository."
              ELSE "Error: " \o rp \o " is not a valid git repository.")
  ELSE None

\* the except clauses of the two operations: the message printed for a caught
\* exception, None when no clause matches and the exception leaves the operation
except_clauses(o, rp, e) ==
  IF e.type = "InvalidGitRepositoryError"
    THEN Some(IF o = "get_git_diff" THEN "Error: Not a valid git repository."
              ELSE "Error: " \o rp \o " is not a valid git repository.")
  ELSE IF e.type \in ExceptionClasses THEN Some("Error: " \o e.text)
  ELSE None

\* mutant: the file is opened for appending
write_to_file_append(fs, f, c, io, k) ==
  LET old == IF fs[f] = None THEN << >> ELSE Val(fs[f])
  IN  CASE io = "ok" ->
             [fs |-> [fs EXCEPT ![f] = Some(old \o utf8_encode(c))],
              msg |-> "\nDiff result saved to file: " \o f, ok |-> TRUE]
        [] io = "open_fails" ->
             [fs |-> fs,
              msg |-> "Error writing to file " \o f \o ": Permission denied",
              ok |-> FALSE]
        [] OTHER ->
             [fs |-> [fs EXCEPT ![f] = Some(old \o SubSeq(utf8_encode(c), 1, k))],
              msg |-> "Error writing to file " \o f \o ": No space left on device",
              ok |-> FALSE]

\* write_to_file: the file system and the message after writing text c to f.
\* open(f, "w") truncates; a failure while writing leaves part of the bytes.
write_to_file(fs, f, c, io, k) ==
  CASE io = "ok" ->
         [fs |-> [fs EXCEPT ![f] = Some(utf8_encode(c))],
          msg |-> "\nDiff result saved to file: " \o f, ok |-> TRUE]
    [] io = "open_fails" ->
         [fs |-> fs,
          msg |-> "Error writing to file " \o f \o ": Permission denied", ok |-> FALSE]
    [] OTHER ->
         [fs |-> [fs EXCEPT ![f] = Some(SubSeq(utf8_encode(c), 1, k))],
          msg |-> "Error writing to file " \o f \o ": No space left on device",
          ok |-> FALSE]

\* how many bytes a write that fails midway may have left
PartialLens(c) == {k \in 0..MaxPartial : k < Len(c)}

-----------------------------------------------------------------------------
(* The state machine *)

Call(name, a) == [call |-> name, a |-> a]

\* the file systems a run may start in: no output file yet, or stale ones
FileSystems == {[f \in OutPaths |-> x] : x \in {None, Some(utf8_encode("old\n"))}}

Init ==
  /\ pc = "idle"
  /\ op = ""
  /\ args = None
  /\ repo_path = ""
  /\ feature_branch = None
  /\ target_branch = None
  /\ output_file = ""
  /\ exclude_patterns = << >>
  /\ given_feature = None
  /\ given_target = None
  /\ unstaged_diff = None
  /\ staged_diff = None
  /\ diff = None
  /\ content = None
  /\ raised = None
  /\ calls = << >>
  /\ stdout = << >>
  /\ written = << >>
  /\ files \in FileSystems
  /\ disk \in Disks

\* an operation is entered with its parameters bound
Enter(o, a, rp, fb, tb, of, ex) ==
  /\ op' = o
  /\ args' = a
  /\ repo_path' = rp
  /\ feature_branch' = fb
  /\ given_feature' = fb
  /\ target_branch' = tb
  /\ given_target' = tb
  /\ output_file' = of
  /\ exclude_patterns' = ex
  /\ pc' = "open"
  /\ UNCHANGED <<unstaged_diff, staged_diff, diff, content, raised, calls, stdout,
                 written, files, disk>>

\* an exception raised inside the try block, after `out` was printed
Raise(out, e) ==
  LET h == except_clauses(op, repo_path, e)
  IN  /\ raised' = Some(e)
      /\ IF h # None
           THEN stdout' = Append(out, Val(h)) /\ pc' = "done"
           ELSE stdout' = out /\ pc' = "propagated"

\* __main__: the command line is parsed and the operation dispatched
Main ==
  /\ pc = "idle"
  /\ \E a \in ArgSpace :
       LET o == Dispatch(a)
       IN  IF o = "missing_target"
             THEN /\ args' = Some(a)
                  /\ stdout' = Append(stdout, MissingTargetMsg)
                  /\ pc' = "done"
                  /\ UNCHANGED <<op, repo_path, feature_branch, target_branch,
                                 output_file, exclude_patterns, given_feature,
                                 given_target, unstaged_diff, staged_diff, diff,
                                 content, raised, calls, written, files, disk>>
           ELSE IF o = "get_branch_diff"
             THEN Enter(o, Some(a), a.repo_path, a.feature_branch, a.target_branch,
                        default_output(a), a.exclude)
           ELSE Enter(o, Some(a), a.repo_path, None, None, default_output(a),
                      a.exclude)

\* get_git_diff called directly (as the tests do)
CallGetGitDiff ==
  /\ pc = "idle"
  /\ \E rp \in RepoPaths, P \in SeqsUpTo(Patterns, MaxPatterns) :
       Enter("get_git_diff", None, rp, None, None, "out.diff", P)

\* get_branch_diff called directly, with a target branch
CallGetBranchDiff ==
  /\ pc = "idle"
  /\ \E rp \in RepoPaths, fb \in FeatureArgs, P \in SeqsUpTo(Patterns, MaxPatterns) :
       Enter("get_branch_diff", None, rp, fb, Some("main"), "out.diff", P)

\* repo = git.Repo(repo_path); if repo.bare: ...
OpenRepo ==
  /\ pc = "open"
  /\ calls' = Append(calls, Call("Repo", <<repo_path>>))
  /\ LET e == repo_open_error(disk, repo_path)
     IN  IF e # None THEN Raise(stdout, Val(e))
         ELSE IF disk.bare
           THEN /\ stdout' = Append(stdout, "Error: Repository is bare")
                /\ pc' = "done"
                /\ UNCHANGED raised
         ELSE /\ pc' = next_step(op, "open")
              /\ UNCHANGED <<stdout, raised>>
  /\ UNCHANGED <<op, args, repo_path, feature_branch, target_branch, output_file,
                 exclude_patterns, given_feature, given_target, unstaged_diff,
                 staged_diff, diff, content, written, files, disk>>

\* if feature_branch is None: feature_branch = repo.active_branch.name
DefaultFeature ==
  /\ pc = "default_feature"
  /\ IF needs_active_branch(feature_branch)
       THEN /\ calls' = Append(calls, Call("active_branch", << >>))
            /\ IF disk.active = None
                 THEN Raise(stdout, DetachedHead) /\ UNCHANGED feature_branch
                 ELSE /\ feature_branch' = disk.active
                      /\ stdout' = Append(stdout,
                           "No feature branch specified. Using current branch: "
                             \o Val(disk.active))
                      /\ pc' = next_step(op, "default_feature")
                      /\ UNCHANGED raised
       ELSE /\ pc' = next_step(op, "default_feature")
            /\ UNCHANGED <<calls, stdout, feature_branch, raised>>
  /\ UNCHANGED <<op, args, repo_path, target_branch, output_file, exclude_patterns,
                 given_feature, given_target, unstaged_diff, staged_diff, diff,
                 content, written, files, disk>>

\* the lookups resolving branch b make: repo.heads, then repo.refs if not local
lookups(d, b) ==
  IF b \in heads(d) THEN <<Call("heads", <<b>>)>>
  ELSE <<Call("heads", <<b>>), Call("refs", <<remote_name(b)>>)>>

\* the target branch: local, else origin/<target>, else the failure message
ResolveTarget ==
  /\ pc = "resolve_target"
  /\ LET t == Val(target_branch)
         r == resolve(disk, t)
         out == Append(stdout,
                  "Error: Target branch '" \o t \o "' does not exist locally.")
     IN  /\ calls' = calls \o lookups(disk, t)
         /\ IF r = Some(t)
              THEN /\ pc' = next_step(op, "resolve_target")
                   /\ UNCHANGED <<stdout, target_branch, content>>
            ELSE IF r # None
              THEN /\ stdout' = Append(out, "Target branch '" \o t
                        \o "' not found locally. Using remote branch '"
                        \o Val(r) \o "'.")
                   /\ target_branch' = r
                   /\ pc' = next_step(op, "resolve_target")
                   /\ UNCHANGED content
            ELSE /\ stdout' = Append(out, target_not_found(t))
                 /\ content' = Some(target_not_found(t))
                 /\ pc' = "write"
                 /\ UNCHANGED target_branch
  /\ UNCHANGED <<op, args, repo_path, feature_branch, output_file, exclude_patterns,
                 given_feature, given_target, unstaged_diff, staged_diff, diff,
                 raised, written, files, disk>>

\* the feature branch: local, else origin/<feature>, else the failure message
ResolveFeature ==
  /\ pc = "resolve_feature"
  /\ LET f == Val(feature_branch)
         r == resolve(disk, f)
     IN  /\ calls' = calls \o lookups(disk, f)
         /\ IF r = Some(f)
              THEN /\ pc' = next_step(op, "resolve_feature")
                   /\ UNCHANGED <<stdout, feature_branch, content>>
            ELSE IF r # None
              THEN /\ stdout' = Append(stdout, "Feature branch '" \o f
                        \o "' not found locally. Using remote branch '"
                        \o Val(r) \o "'.")
                   /\ feature_branch' = r
                   /\ pc' = next_step(op, "resolve_feature")
                   /\ UNCHANGED content
            ELSE /\ stdout' = Append(stdout, feature_not_found(f))
                 /\ content' = Some(feature_not_found(f))
                 /\ pc' = "write"
                 /\ UNCHANGED feature_branch
  /\ UNCHANGED <<op, args, repo_path, target_branch, output_file, exclude_patterns,
                 given_feature, given_target, unstaged_diff, staged_diff, diff,
                 raised, written, files, disk>>

\* diff = repo.git.diff(target, feature, "--", *exclude_args); format; print
BranchDiff ==
  /\ pc = "branch_diff"
  /\ \E r \in DiffOutcomes :
       /\ calls' = Append(calls, Call("diff",
            branch_diff_args(Val(target_branch), Val(feature_branch),
                             exclude_patterns)))
       /\ IF r.raised # None
            THEN Raise(stdout, Val(r.raised)) /\ UNCHANGED <<diff, content>>
            ELSE LET output == format_branch_diff(Val(target_branch),
                                                  Val(feature_branch), r.text)
                 IN  /\ diff' = Some(r.text)
                     /\ stdout' = Append(stdout, output)
                     /\ content' = Some(output)
                     /\ pc' = next_step(op, "branch_diff")
                     /\ UNCHANGED raised
  /\ UNCHANGED <<op, args, repo_path, feature_branch, target_branch, output_file,
                 exclude_patterns, given_feature, given_target, unstaged_diff,
                 staged_diff, written, files, disk>>

\* unstaged_diff = repo.git.diff("--", *exclude_args)
UnstagedDiff ==
  /\ pc = "unstaged"
  /\ \E r \in DiffOutcomes :
       /\ calls' = Append(calls, Call("diff", unstaged_diff_args(exclude_patterns)))
       /\ IF r.raised # None
            THEN Raise(stdout, Val(r.raised)) /\ UNCHANGED unstaged_diff
            ELSE /\ unstaged_diff' = Some(r.text)
                 /\ pc' = next_step(op, "unstaged")
                 /\ UNCHANGED <<stdout, raised>>
  /\ UNCHANGED <<op, args, repo_path, feature_branch, target_branch, output_file,
                 exclude_patterns, given_feature, given_target, staged_diff, diff,
                 content, written, files, disk>>

\* staged_diff = repo.git.diff('--cached', *exclude_args); format; print
StagedDiff ==
  /\ pc = "staged"
  /\ \E r \in DiffOutcomes :
       /\ calls' = Append(calls, Call("diff", staged_diff_args(exclude_patterns)))
       /\ IF r.raised # None
            THEN Raise(stdout, Val(r.raised)) /\ UNCHANGED <<staged_diff, content>>
            ELSE LET output == format_git_diff(repo_path, Val(unstaged_diff), r.text)
                 IN  /\ staged_diff' = Some(r.text)
                     /\ stdout' = Append(stdout, output)
                     /\ content' = Some(output)
                     /\ pc' = next_step(op, "staged")
                     /\ UNCHANGED raised
  /\ UNCHANGED <<op, args, repo_path, feature_branch, target_branch, output_file,
                 exclude_patterns, given_feature, given_target, unstaged_diff, diff,
                 written, files, disk>>

\* one call of write_to_file(f, c), with the outcome the file system gives it
Write(f, c) ==
  \E io \in IoOutcomes, k \in 0..MaxPartial :
    /\ k \in (IF io = "write_fails" THEN PartialLens(c) ELSE {0})
    /\ LET w == write_to_file(files, f, c, io, k)
       IN  /\ files' = w.fs
           /\ stdout' = Append(stdout, w.msg)
           /\ written' = Append(written, [file |-> f, content |-> c, ok |-> w.ok])
    /\ calls' = Append(calls, Call("write_to_file", <<f, c>>))

\* write_to_file(output_file, output) or write_to_file(output_file, msg)
WriteToFile ==
  /\ pc = "write"
  /\ Write(output_file, Val(content))
  /\ pc' = after_write(op, Val(content))
  /\ UNCHANGED <<op, args, repo_path, feature_branch, target_branch, output_file,
                 exclude_patterns, given_feature, given_target, unstaged_diff,
                 staged_diff, diff, content, raised, disk>>

Next ==
  \/ Main
  \/ CallGetGitDiff
  \/ CallGetBranchDiff
  \/ OpenRepo
  \/ DefaultFeature
  \/ ResolveTarget
  \/ ResolveFeature
  \/ BranchDiff
  \/ UnstagedDiff
  \/ StagedDiff
  \/ WriteToFile

Spec == Init /\ [][Next]_vars

\* every call is blocking and returns: a started run keeps taking steps
FairSpec == Spec /\ WF_vars(Next)

\* write_to_file called directly, repeatedly (as test_write_to_file does)
WriteTexts == {"", "Test content", "a\nb"}

DirectWrite ==
  /\ pc = "idle"
  /\ Len(written) < MaxWrites
  /\ \E f \in {"out.diff", "./gitbranch.diff"}, c \in WriteTexts : Write(f, c)
  /\ UNCHANGED <<pc, op, args, repo_path, feature_branch, target_branch,
                 output_file, exclude_patterns, given_feature, given_target,
                 unstaged_diff, staged_diff, diff, content, raised, disk>>

InitW == Init /\ disk.status = "nopath"

SpecW == InitW /\ [][DirectWrite]_vars

-----------------------------------------------------------------------------
(* Observations used by the properties *)

Done == pc = "done"

CallsOf(name) == SelectSeq(calls, LAMBDA c : c.call = name)
DiffCalls == CallsOf("diff")
WriteCalls == CallsOf("write_to_file")
Lookups == SelectSeq(calls, LAMBDA c : c.call \in {"heads", "refs"})

Printed(m) == \E i \in 1..Len(stdout) : stdout[i] = m

\* the repository opens and has a working tree
ValidRepo == disk.status = "ok" /\ ~disk.bare

InBranchDiff == op = "get_branch_diff"
InGitDiff == op = "get_git_diff"

\* branch b is neither a local branch nor present as origin/b among the refs
Absent(b) ==
  /\ b \notin disk.heads
  /\ ("origin/" \o b) \notin (disk.heads \cup disk.remotes)

\* the active-branch lookup of this run, if one is needed, succeeds
ActiveLookupOk == given_feature = None => disk.active # None

\* the feature branch name the run works with, when there is one
HasFeatureName == given_feature # None \/ disk.active # None
FeatureName == IF given_feature # None THEN Val(given_feature) ELSE Val(disk.active)
TargetName == Val(given_target)

NotFoundPhrase == "does not exist locally or remotely"

\* the run printed a not-found message, handed exactly it to write_to_file, the
\* file holds it when the write succeeded, and no diff was invoked
NotFoundOutcome ==
  /\ DiffCalls = << >>
  /\ Len(WriteCalls) = 1
  /\ LET m == WriteCalls[1].a[2]
     IN  /\ Contains(m, NotFoundPhrase)
         /\ Printed(m)
         /\ WriteCalls[1].a[1] = output_file
         /\ written[1].ok => read_back(files, output_file) = Some(m)

-----------------------------------------------------------------------------
(* C1 *)

\* C1 as stated: in get_branch_diff on a valid non-bare repository, whenever the
\* target or the feature branch is neither local nor present as origin/<name>,
\* the finished run has printed a message containing "does not exist locally or
\* remotely", written that message to the output file and invoked no diff.
C1_AsStated ==
  (Done /\ InBranchDiff /\ ValidRepo
     /\ (Absent(TargetName) \/ (HasFeatureName /\ Absent(FeatureName))))
    => NotFoundOutcome

\* C1, amended: the same, for runs whose active-branch lookup (made when the
\* feature branch is omitted) does not raise; when it raises, the run ends in
\* the exception handler with nothing written.
C1_BranchNotFound ==
  /\ (Done /\ InBranchDiff /\ ValidRepo /\ ActiveLookupOk
        /\ (Absent(TargetName) \/ Absent(FeatureName)))
       => NotFoundOutcome
  /\ (Done /\ InBranchDiff /\ ValidRepo /\ ~ActiveLookupOk)
       => (WriteCalls = << >> /\ DiffCalls = << >>)

\* a finished run in which both branches are absent and the message is on file
C1_Witness ==
  /\ Done /\ InBranchDiff /\ ValidRepo /\ ActiveLookupOk
  /\ Absent(TargetName) /\ Absent(FeatureName)
  /\ NotFoundOutcome /\ written[1].ok

-----------------------------------------------------------------------------
(* C2 *)

\* only the target was looked up, the only error message names the target, and
\* the target's not-found message is what was handed to write_to_file
TargetShortCircuit ==
  /\ Lookups = <<Call("heads", <<TargetName>>),
                 Call("refs", <<"origin/" \o TargetName>>)>>
  /\ \A i \in 1..Len(stdout) :
       StartsWith(stdout[i], "Error: ")
         => Contains(stdout[i], "Target branch '" \o TargetName \o "'")
  /\ \E i \in 1..Len(stdout) :
       /\ Contains(stdout[i], NotFoundPhrase)
       /\ WriteCalls = <<Call("write_to_file", <<output_file, stdout[i]>>)>>
  /\ DiffCalls = << >>

\* C2 as stated: whenever the target branch is neither local nor present as
\* origin/<target>, the finished run looked up the target only, never the
\* feature branch, and its only failure message names the target branch, for
\* every feature_branch argument including an omitted one.
C2_AsStated ==
  (Done /\ InBranchDiff /\ ValidRepo /\ Absent(TargetName)) => TargetShortCircuit

\* C2, amended: target resolution precedes feature resolution in every run, and
\* an unresolvable target short-circuits as stated in every run whose
\* active-branch lookup (made before target resolution when the feature branch
\* is omitted) does not raise.
C2_TargetFirst ==
  /\ (InBranchDiff /\ Lookups # << >>)
       => Lookups[1] = Call("heads", <<TargetName>>)
  /\ (Done /\ InBranchDiff /\ ValidRepo /\ ActiveLookupOk /\ Absent(TargetName))
       => TargetShortCircuit

\* a finished run with the feature branch omitted and the target unresolvable
C2_Witness ==
  /\ Done /\ InBranchDiff /\ ValidRepo /\ Absent(TargetName)
  /\ given_feature = None /\ disk.active # None
  /\ TargetShortCircuit

-----------------------------------------------------------------------------
(* C3 *)

\* the ref a resolvable branch name stands for: local first, else origin/<name>
Expected(b) == IF b \in disk.heads THEN b ELSE "origin/" \o b

\* C3: when both branch names resolve, the diff is invoked exactly once with the
\* resolved target as first and the resolved feature as second endpoint (local
\* preferred over origin/<name>), and the document handed to write_to_file
\* names those two resolved names.
C3_ResolvedEndpoints ==
  (InBranchDiff /\ ValidRepo /\ ActiveLookupOk /\ pc \in {"write", "done"}
     /\ ~Absent(TargetName) /\ ~Absent(FeatureName))
    => /\ Len(DiffCalls) = 1
       /\ SubSeq(DiffCalls[1].a, 1, 3)
            = <<Expected(TargetName), Expected(FeatureName), "--">>
       /\ content # None
            => StartsWith(Val(content),
                 "Diff between target branch '" \o Expected(TargetName)
                   \o "' and feature branch '" \o Expected(FeatureName) \o "':\n")
       /\ WriteCalls # << >>
            => WriteCalls = <<Call("write_to_file", <<output_file, Val(content)>>)>>
       /\ (Done /\ raised = None) => Len(WriteCalls) = 1

\* the target is only a remote-tracking ref, the feature is local and also has
\* a remote-tracking ref, and the document is on file
C3_Witness ==
  /\ Done /\ InBranchDiff /\ ValidRepo /\ ActiveLookupOk
  /\ "main" \notin disk.heads /\ "origin/main" \in disk.remotes
  /\ FeatureName \in disk.heads /\ ("origin/" \o FeatureName) \in disk.remotes
  /\ Len(DiffCalls) = 1
  /\ DiffCalls[1].a[1] = "origin/main" /\ DiffCalls[1].a[2] = FeatureName
  /\ Len(written) = 1 /\ written[1].ok
  /\ read_back(files, output_file) = content

-----------------------------------------------------------------------------
(* C4 *)

\* C4: with the feature branch omitted, the name looked up among the branches
\* and passed as second diff endpoint is the active branch's; a supplied
\* feature branch (even an empty one) is never replaced by the active branch.
C4_EffectiveFeature ==
  InBranchDiff
    => /\ given_feature # None
            => /\ CallsOf("active_branch") = << >>
               /\ pc \in {"resolve_target", "resolve_feature"}
                    => feature_branch = given_feature
       /\ (given_feature = None /\ pc \in {"resolve_target", "resolve_feature"})
            => /\ feature_branch = disk.active
               /\ Len(CallsOf("active_branch")) = 1
       /\ Len(CallsOf("heads")) >= 2
            => /\ HasFeatureName
               /\ CallsOf("heads")[2].a = <<FeatureName>>
       /\ DiffCalls # << >>
            => DiffCalls[1].a[2] \in {FeatureName, "origin/" \o FeatureName}

\* the feature branch was omitted and the diff ran against the active branch
C4_Witness ==
  /\ InBranchDiff /\ given_feature = None /\ disk.active = Some("dev")
  /\ Len(DiffCalls) = 1 /\ DiffCalls[1].a[2] = "dev"
  /\ CallsOf("heads")[2].a = <<"dev">>

-----------------------------------------------------------------------------
(* C5 *)

\* C5: the document get_git_diff hands to write_to_file is the repository-path
\* line, the Unstaged Changes heading with D1 or "No unstaged changes." exactly
\* when D1 is empty, the Staged Changes heading with D2 or "No staged changes."
\* exactly when D2 is empty, the two chosen independently; a successful write
\* leaves exactly that document on file.
C5_LocalDocument ==
  (InGitDiff /\ content # None)
    => LET c == Val(content)
           d1 == Val(unstaged_diff)
           d2 == Val(staged_diff)
       IN  /\ c = Concat(<<"Repository: ", repo_path, "\n",
                           "\n==== Unstaged Changes ====\n",
                           IF d1 = "" THEN "No unstaged changes." ELSE d1, "\n",
                           "\n==== Staged Changes ====\n",
                           IF d2 = "" THEN "No staged changes." ELSE d2>>)
           /\ Contains(c, "No unstaged changes.") <=> d1 = ""
           /\ Contains(c, "No staged changes.") <=> d2 = ""
           /\ Printed(c)
           /\ WriteCalls # << >>
                => /\ WriteCalls = <<Call("write_to_file", <<output_file, c>>)>>
                   /\ written[1].ok => read_back(files, output_file) = Some(c)
           /\ Done => Len(WriteCalls) = 1

\* nothing unstaged, something staged, and the document is on file
C5_Witness ==
  /\ Done /\ InGitDiff
  /\ unstaged_diff = Some("") /\ staged_diff = Some("+a")
  /\ Len(written) = 1 /\ written[1].ok
  /\ read_back(files, output_file) = content
  /\ Contains(Val(content), "No unstaged changes.")
  /\ ~Contains(Val(content), "No staged changes.")

-----------------------------------------------------------------------------
(* C6 *)

\* C6: every diff invocation receives, after its leading arguments, exactly
\* ":(exclude)" + p for each pattern p of the list, in the list's order, one per
\* pattern; an empty list gives no filter arguments.
C6_ExcludeFilters ==
  \A i \in 1..Len(DiffCalls) :
    LET a == DiffCalls[i].a
        lead == IF InGitDiff THEN 1 ELSE 3
        n == Len(exclude_patterns)
    IN  /\ Len(a) = lead + n
        /\ \A j \in 1..n : a[lead + j] = ":(exclude)" \o exclude_patterns[j]
        /\ InGitDiff => a[1] = (IF i = 1 THEN "--" ELSE "--cached")
        /\ InBranchDiff => a[3] = "--"

\* both diffs of get_git_diff ran with two different patterns, in order
C6_Witness ==
  /\ InGitDiff /\ exclude_patterns = <<"a/", "b/*.log">>
  /\ Len(DiffCalls) = 2
  /\ DiffCalls[1].a = <<"--", ":(exclude)a/", ":(exclude)b/*.log">>
  /\ DiffCalls[2].a = <<"--cached", ":(exclude)a/", ":(exclude)b/*.log">>

-----------------------------------------------------------------------------
(* C7 *)

\* C7: in both operations, an invalid repository, a bare repository or any
\* other exception of the library (opening the repository, looking up the
\* active branch, invoking a diff) ends the run with a printed error, without
\* any write_to_file call and without the exception leaving the operation; a
\* bare repository also sees no diff invocation.
C7_FailuresWriteNothing ==
  /\ pc # "propagated"
  /\ raised # None => Done
  /\ (Done /\ op # "" /\ (disk.status # "ok" \/ disk.bare \/ raised # None))
       => /\ WriteCalls = << >>
          /\ written = << >>
          /\ files \in FileSystems
          /\ stdout # << >>
          /\ StartsWith(Last(stdout), "Error: ")
          /\ disk.status = "invalid"
               => Contains(Last(stdout), "ot a valid git repository.")
          /\ (raised # None /\ Val(raised).type # "InvalidGitRepositoryError")
               => Last(stdout) = "Error: " \o Val(raised).text
          /\ disk.status # "ok" => (raised # None /\ Len(calls) = 1)
          /\ (disk.status = "ok" /\ disk.bare)
               => /\ DiffCalls = << >>
                  /\ Last(stdout) = "Error: Repository is bare"
                  /\ raised = None

\* the diff of get_branch_diff raised after both branches were resolved
C7_Witness ==
  /\ Done /\ InBranchDiff /\ raised = Some(DiffFailed)
  /\ Len(DiffCalls) = 1 /\ written = << >>
  /\ Last(stdout) = "Error: " \o DiffFailed.text

-----------------------------------------------------------------------------
(* C8 *)

\* a non-empty target branch is on the command line
TargetGiven(a) == a.target_branch # None /\ a.target_branch # Some("")

\* text m is one of get_branch_diff's messages or its document
MentionsBranch(m) == Contains(m, "branch '") \/ Contains(m, "current branch")

\* C8: run from the command line, --compare without a target branch prints the
\* error and does nothing else; --compare with a target branch runs only
\* get_branch_diff; without --compare only get_git_diff runs, and the feature
\* and target options change neither the diff invocations nor the document.
C8_ModeDispatch ==
  args # None
    => LET a == Val(args)
           E == [j \in 1..Len(a.exclude) |-> ":(exclude)" \o a.exclude[j]]
       IN  /\ (a.compare /\ ~TargetGiven(a))
                => /\ op = "" /\ Done
                   /\ calls = << >>
                   /\ stdout = <<MissingTargetMsg>>
                   /\ written = << >> /\ files \in FileSystems
           /\ (a.compare /\ TargetGiven(a))
                => /\ InBranchDiff
                   /\ given_target = a.target_branch
                   /\ given_feature = a.feature_branch
                   /\ \A i \in 1..Len(DiffCalls) :
                        Len(DiffCalls[i].a) >= 3 /\ DiffCalls[i].a[3] = "--"
                   /\ content # None => ~StartsWith(Val(content), "Repository: ")
           /\ ~a.compare
                => /\ InGitDiff
                   /\ Lookups = << >> /\ CallsOf("active_branch") = << >>
                   /\ \A i \in 1..Len(DiffCalls) :
                        DiffCalls[i].a
                          = <<IF i = 1 THEN "--" ELSE "--cached">> \o E
                   /\ content # None
                        => /\ StartsWith(Val(content),
                                "Repository: " \o a.repo_path \o "\n")
                           /\ ~MentionsBranch(Val(content))
                   /\ \A i \in 1..Len(stdout) : ~MentionsBranch(stdout[i])

\* --compare without -t on a repository where a diff could have been made
C8_Witness ==
  /\ args # None /\ Val(args).compare
  /\ Val(args).target_branch = None /\ Val(args).feature_branch = Some("dev")
  /\ ValidRepo /\ Done
  /\ stdout = <<MissingTargetMsg>> /\ calls = << >>

-----------------------------------------------------------------------------
(* C9 *)

\* the index of the last write_to_file call on path f (0: none)
LastWrite(f) ==
  LET idx == {i \in 1..Len(written) : written[i].file = f}
  IN  IF idx = {} THEN 0 ELSE CHOOSE i \in idx : \A j \in idx : j <= i

\* C9: after a successful write_to_file(f, c) reading f back yields exactly c,
\* whatever f held before; so after any sequence of writes f holds the content
\* of the last one when that one succeeded, and paths never written keep what
\* they held.
C9_Overwrite ==
  \A f \in OutPaths :
    LET l == LastWrite(f)
    IN  /\ (l > 0 /\ written[l].ok) => read_back(files, f) = Some(written[l].content)
        /\ l = 0 => files[f] \in {None, Some(utf8_encode("old\n"))}

\* a longer text, then a shorter one, written to the same existing file
C9_Witness ==
  /\ Len(written) >= 2
  /\ written[1] = [file |-> "out.diff", content |-> "Test content", ok |-> TRUE]
  /\ written[2] = [file |-> "out.diff", content |-> "a\nb", ok |-> TRUE]
  /\ read_back(files, "out.diff") = Some("a\nb")
  /\ files["./gitbranch.diff"] # None

-----------------------------------------------------------------------------
(* C10 *)

\* the order of the calls of a run
OrderInv ==
  /\ Len(WriteCalls) <= 1
  /\ Len(CallsOf("Repo")) <= 1
  /\ calls # << >> => calls[1].call = "Repo"
  /\ Len(DiffCalls) <= (IF InGitDiff THEN 2 ELSE 1)
  /\ \A i, j \in 1..Len(calls) :
       i < j => /\ calls[i].call = "write_to_file" => FALSE
                /\ calls[i].call = "diff" => calls[j].call \in {"diff", "write_to_file"}
  /\ (WriteCalls # << >> /\ ~Contains(WriteCalls[1].a[2], NotFoundPhrase))
       => /\ raised = None
          /\ InGitDiff => /\ Len(DiffCalls) = 2
                          /\ unstaged_diff # None /\ staged_diff # None
          /\ InBranchDiff => Len(DiffCalls) = 1 /\ diff # None

\* how a run ends
WrittenDocument ==
  /\ Len(written) = 1 /\ written[1].ok
  /\ ~Contains(written[1].content, NotFoundPhrase)
WrittenFailure ==
  /\ Len(written) = 1 /\ written[1].ok
  /\ Contains(written[1].content, NotFoundPhrase)
PrintedError ==
  /\ stdout # << >>
  /\ StartsWith(Last(stdout), "Error") \/ Last(stdout) = MissingTargetMsg
  /\ \A i \in 1..Len(written) : ~written[i].ok

\* C10: in every run the repository is opened first, branch lookups come
\* before any diff, write_to_file is called at most once and after every diff
\* of the run has returned, no diff follows a write, and the run terminates
\* with a written document, a written failure message or a printed error.
C10_OrderAndTermination ==
  /\ []OrderInv
  /\ [](Done => (WrittenDocument \/ WrittenFailure \/ PrintedError))
  /\ <>Done

\* a finished get_git_diff run: two diffs, then the one write
C10_Witness ==
  /\ Done /\ InGitDiff /\ WrittenDocument
  /\ Len(calls) = 4
  /\ calls[2].call = "diff" /\ calls[3].call = "diff"
  /\ calls[4].call = "write_to_file"

====
